---- MODULE Spec2Model ----
(***************************************************************************)
(* PCF8574 8-bit quasi-bidirectional I/O expander driver (MakeCode).       *)
(*                                                                         *)
(* The repository holds two revisions of the Device class:                 *)
(*   "main"   - src/main.ts, hardware only;                                *)
(*   "readme" - the simulator-aware revision listed in src/README.md,      *)
(*              with the fields sim and simPort.                           *)
(* One Device is modelled.  Every public operation is one atomic action    *)
(* (the host runs tasks cooperatively), except buttonPressed, which yields *)
(* at basic.pause between its two reads: it is split in ButtonPressed      *)
(* (up to the pause or the return) and ButtonResume (after the pause).     *)
(***************************************************************************)
EXTENDS Integers, Sequences, FiniteSets

VARIABLES
    impl,         \* which revision of the class this Device is
    host,         \* what control.deviceDalVersion() does for the constructor
    sim,          \* Device.sim
    latch,        \* Device.latch
    initialized,  \* Device.initialized
    simPort,      \* Device.simPort
    firstBus,     \* the first transaction attempted on the bus
    lastWrite,    \* the last byte the bus accepted (-1: none yet)
    ensureBegins, \* how often ensureInit has called begin
    early,        \* latch changed or bus used before begin, other than by begin
    bp,           \* the buttonPressed call suspended in basic.pause
    last,         \* the call that ended (or paused) last, its arguments and result
    prev,         \* the call before it, when the two are one of the Sequels
    test          \* the tasks of the test program: where the blink task is, and
                  \* the levels the blink and the button task wrote last

vars == <<impl, host, sim, latch, initialized, simPort, firstBus, lastWrite,
          ensureBegins, early, bp, last, prev, test>>

---------------------------------------------------------------------------
(* Bounds and input sets *)

\* No more calls of begin through ensureInit than this are followed.
MaxBegins == 3

\* The pins the calls are made on: the lowest and the highest of enum Pin.
Pins == {0, 7}

\* Arguments of writePort.
PortValues == {0, 164, 255}

\* Bytes an I2C read may deliver.
BusBytes == {91, 164}

\* Arguments debounceMs of buttonPressed (20 is the default).
Debounces == {0, 20}

\* Outcomes of control.deviceDalVersion(): a version string, or an exception.
HostQueries == {"sim", "2.2.0", "THROWS"}

\* The bus transaction of an operation that fails (0: none fails).
FailPoints == 0..3

\* The pin the calls are made on where the bus may fail.
FailPins == {7}

\* Arguments of writePort outside 0..255: negative, 256, and more than 8 bits.
AnyPortValues == {-1, 256, 420}

\* Pin arguments of a caller that does not keep to enum Pin: the highest pin
\* and the first number past it.
AnyPins == {7, 8}

---------------------------------------------------------------------------
(* The number operators of the source: &, |, ~ and << on two's complement  *)
(* integers.  x % 2 is the lowest bit and x \div 2 the arithmetic shift,   *)
(* also for a negative x.                                                  *)

RECURSIVE BitAnd(_, _)
BitAnd(a, b) ==
    IF a = 0 \/ b = 0 THEN 0
    ELSE IF a = -1 THEN b
    ELSE IF b = -1 THEN a
    ELSE (a % 2) * (b % 2) + 2 * BitAnd(a \div 2, b \div 2)

RECURSIVE BitOr(_, _)
BitOr(a, b) ==
    IF a = 0 THEN b
    ELSE IF b = 0 THEN a
    ELSE IF a = -1 \/ b = -1 THEN -1
    ELSE (IF a % 2 = 1 \/ b % 2 = 1 THEN 1 ELSE 0) + 2 * BitOr(a \div 2, b \div 2)

BitNot(a) == -a - 1

Shl1(n) == 2 ^ (n % 32)

---------------------------------------------------------------------------
(* The state an operation works on: the fields of the Device, the bus      *)
(* bookkeeping, and what the running call has done so far:                 *)
(*   w, r   bus writes and reads attempted by this call,                   *)
(*   fail   the transaction of this call that the bus fails (0: none),     *)
(*   err    the call has been left by the exception of a failed            *)
(*          transaction: every later statement of the call is skipped,     *)
(*   faulted, failedAt  the bus has failed a transaction of this call, and *)
(*          how many transactions the call had attempted by then,          *)
(*   retN, retB  the value returned (number, boolean).                     *)
(* A method body "A; B; C" is the composition C(B(A(s))).                  *)

Enter(f) ==
    [latch |-> latch, initialized |-> initialized, simPort |-> simPort,
     firstBus |-> firstBus, lastWrite |-> lastWrite,
     ensureBegins |-> ensureBegins, early |-> early,
     w |-> 0, r |-> 0, fail |-> f, err |-> FALSE, faulted |-> FALSE, failedAt |-> 0,
     retN |-> 0, retB |-> FALSE]

FirstBus(s, kind, val) ==
    IF s.firstBus.kind = "none" THEN [kind |-> kind, val |-> val] ELSE s.firstBus

\* this.latch = v.  early records a change made on a Device that is not
\* initialized.
setLatch(s, v) ==
    IF s.err THEN s
    ELSE [s EXCEPT !.latch = v, !.early = @ \/ ~s.initialized]

\* A faulty writeByte: it catches the failure of the primitive and goes on.
writeByteSwallow(s, b) ==
    IF s.err THEN s
    ELSE IF s.fail = s.w + s.r + 1
    THEN [s EXCEPT !.w = @ + 1, !.early = @ \/ ~s.initialized,
                   !.firstBus = FirstBus(s, "write", BitAnd(b, 255)),
                   !.faulted = TRUE, !.failedAt = s.w + s.r + 1]
    ELSE [s EXCEPT !.w = @ + 1, !.early = @ \/ ~s.initialized,
                   !.firstBus = FirstBus(s, "write", BitAnd(b, 255)),
                   !.lastWrite = BitAnd(b, 255)]

\* pins.i2cWriteNumber(this.addr, b & 0xFF, NumberFormat.UInt8BE, false).
\* The call is a statement with no handler around it: a failure of the
\* primitive leaves the method at once.
writeByte(s, b) ==
    IF s.err THEN s
    ELSE IF s.fail = s.w + s.r + 1
    THEN [s EXCEPT !.w = @ + 1, !.early = @ \/ ~s.initialized,
                   !.firstBus = FirstBus(s, "write", BitAnd(b, 255)),
                   !.faulted = TRUE, !.failedAt = s.w + s.r + 1, !.err = TRUE]
    ELSE [s EXCEPT !.w = @ + 1, !.early = @ \/ ~s.initialized,
                   !.firstBus = FirstBus(s, "write", BitAnd(b, 255)),
                   !.lastWrite = BitAnd(b, 255)]

\* A faulty writeLatch: the byte pushed is not the latch.
writeLatchStale(s) == writeByte(s, 255)

\* this.writeByte(this.latch)
writeLatch(s) == writeByte(s, s.latch)

\* pins.i2cReadNumber(this.addr, NumberFormat.UInt8BE, false) & 0xFF, the bus
\* delivering rd.
i2cRead(s, rd) ==
    IF s.err THEN s
    ELSE IF s.fail = s.w + s.r + 1
    THEN [s EXCEPT !.r = @ + 1, !.early = @ \/ ~s.initialized,
                   !.firstBus = FirstBus(s, "read", 0),
                   !.faulted = TRUE, !.failedAt = s.w + s.r + 1, !.err = TRUE]
    ELSE [s EXCEPT !.r = @ + 1, !.early = @ \/ ~s.initialized,
                   !.firstBus = FirstBus(s, "read", 0),
                   !.retN = BitAnd(rd, 255)]

\* A faulty isSimulator: a query that throws counts as the simulator.
isSimulatorUncaught(q) == q \in {"sim", "THROWS"}

\* function isSimulator(), q being what control.deviceDalVersion() does.
isSimulator(q) == (IF q = "THROWS" THEN "" ELSE q) = "sim"

---------------------------------------------------------------------------
(* begin and ensureInit *)

\* this.initialized = true
markInitialized(s) == IF s.err THEN s ELSE [s EXCEPT !.initialized = TRUE]

\* A faulty mirrorLatch: simPort is left as it is.
mirrorNone(s) == s

\* this.simPort = this.latch & 0xFF
mirrorLatch(s) == [s EXCEPT !.simPort = BitAnd(s.latch, 255)]

beginMain(s) == markInitialized(writeLatch(s))

beginReadme(s) == markInitialized(IF sim THEN mirrorLatch(s) ELSE writeLatch(s))

\* begin's own push of the latch is what initialization is: it does not
\* count as early.
keepEarly(s, e) == [s EXCEPT !.early = e]

begin(s) == keepEarly(IF impl = "main" THEN beginMain(s) ELSE beginReadme(s), s.early)

\* A faulty ensureInit: it does not look at initialized.
ensureInitAlways(s) ==
    IF s.err THEN s ELSE begin([s EXCEPT !.ensureBegins = @ + 1])

ensureInit(s) ==
    IF s.err \/ s.initialized
    THEN s
    ELSE begin([s EXCEPT !.ensureBegins = @ + 1])

---------------------------------------------------------------------------
(* Port primitives *)

\* A faulty simRead: the snapshot alone, the latch left out.
simReadSnapshot(s) ==
    IF s.err THEN s ELSE [s EXCEPT !.retN = s.simPort]

\* The simulator's answer of readPort.
simRead(s) ==
    IF s.err THEN s
    ELSE [s EXCEPT !.retN = BitOr(BitAnd(s.simPort, s.latch),
                                  BitAnd(0, BitAnd(BitNot(s.latch), 255)))]

readPortMain(s, rd) == i2cRead(ensureInit(s), rd)

readPortReadme(s, rd) ==
    IF sim THEN simRead(ensureInit(s)) ELSE i2cRead(ensureInit(s), rd)

readPort(s, rd) ==
    IF impl = "main" THEN readPortMain(s, rd) ELSE readPortReadme(s, rd)

\* A faulty pushUnlessSim: the early return of the simulator is missing.
pushAlways(s) == writeLatch(s)

\* if (this.sim) return; this.writeByte(this.latch)
pushUnlessSim(s) == IF sim THEN s ELSE writeLatch(s)

\* A faulty writePort: value is stored without & 0xFF.
writePortMainUnmasked(s, value) == writeLatch(setLatch(ensureInit(s), value))

writePortMain(s, value) == writeLatch(setLatch(ensureInit(s), BitAnd(value, 255)))

writePortReadme(s, value) == pushUnlessSim(setLatch(ensureInit(s), BitAnd(value, 255)))

writePort(s, value) ==
    IF impl = "main" THEN writePortMain(s, value) ELSE writePortReadme(s, value)

---------------------------------------------------------------------------
(* Pin operations *)

\* A faulty pinOf: the mask is left out.
pinOfAny(s, mask) ==
    IF s.err THEN s ELSE [s EXCEPT !.retB = (s.retN # 0)]

\* return (v & mask) !== 0
pinOf(s, mask) ==
    IF s.err THEN s ELSE [s EXCEPT !.retB = (BitAnd(s.retN, mask) # 0)]

\* A faulty orLatch: every pin is released, not the one of the mask.
orLatchAll(s, mask) == setLatch(s, 255)

\* this.latch |= mask
orLatch(s, mask) == setLatch(s, BitOr(s.latch, mask))

\* A faulty releasePin: the pin is not released before the read.
releasePinNever(s, mask) == s

\* A faulty releasePin: in the simulator the latch is not updated.
releasePinBusOnly(s, mask) ==
    IF s.err \/ BitAnd(s.latch, mask) # 0 \/ sim
    THEN s
    ELSE writeLatch(orLatch(s, mask))

\* if ((this.latch & mask) == 0) { this.latch |= mask; if (!this.sim) ... }
releasePin(s, mask) ==
    IF s.err \/ BitAnd(s.latch, mask) # 0
    THEN s
    ELSE IF ~sim THEN writeLatch(orLatch(s, mask)) ELSE orLatch(s, mask)

readPinMain(s, pin, rd) ==
    pinOf(readPort(writeLatch(orLatch(ensureInit(s), Shl1(pin))), rd), Shl1(pin))

readPinReadme(s, pin, rd) ==
    pinOf(readPort(releasePin(ensureInit(s), Shl1(pin)), rd), Shl1(pin))

readPin(s, pin, rd) ==
    IF impl = "main" THEN readPinMain(s, pin, rd) ELSE readPinReadme(s, pin, rd)

\* A faulty withPin: ^= in the place of |=.
withPinToggle(l, mask, high) ==
    IF high /\ BitAnd(l, mask) = 0 THEN BitOr(l, mask) ELSE BitAnd(l, BitNot(mask))

\* if (high) this.latch |= mask else this.latch &= ~mask
withPin(l, mask, high) ==
    IF high THEN BitOr(l, mask) ELSE BitAnd(l, BitNot(mask))

\* A faulty setPin: the byte is built from 0xFF, not from the cached latch.
setPinUncached(s, mask, high) == setLatch(s, withPin(255, mask, high))

setPin(s, mask, high) == setLatch(s, withPin(s.latch, mask, high))

writePinMain(s, pin, high) == writeLatch(setPin(ensureInit(s), Shl1(pin), high))

writePinReadme(s, pin, high) == pushUnlessSim(setPin(ensureInit(s), Shl1(pin), high))

writePin(s, pin, high) ==
    IF impl = "main" THEN writePinMain(s, pin, high) ELSE writePinReadme(s, pin, high)

\* A faulty driveLow: the wiring is not looked at.
driveLowAlways(on, activeLow) == on

\* const driveLow = activeLow ? on : !on
driveLow(on, activeLow) == IF activeLow THEN on ELSE ~on

led(s, pin, on, activeLow) == writePin(s, pin, ~driveLow(on, activeLow))

setInput(s, pin) == writePin(s, pin, TRUE)

setOutputLow(s, pin) == writePin(s, pin, FALSE)

\* Only the "readme" revision has these two.
setSimPinHigh(s, pin) ==
    IF ~sim THEN s ELSE [s EXCEPT !.simPort = BitOr(s.simPort, Shl1(pin))]

\* A faulty setSimPinLow: the hardware is not told apart.
setSimPinLowUnguarded(s, pin) ==
    [s EXCEPT !.simPort = BitAnd(s.simPort, BitNot(Shl1(pin)))]

setSimPinLow(s, pin) ==
    IF ~sim THEN s ELSE [s EXCEPT !.simPort = BitAnd(s.simPort, BitNot(Shl1(pin)))]

---------------------------------------------------------------------------
(* The state machine *)

NoBp == [active |-> FALSE, pin |-> 0, d |-> 0]

\* What last records of the call that ended last: its name and arguments (val: the
\* value of writePort or debounceMs; high: the level written to the pin),
\* its result, the bus transactions it attempted, whether a failed
\* transaction aborted it, and for buttonPressed whether it went through
\* basic.pause and what its first and second readPin returned.  A
\* buttonPressed that has reached basic.pause is recorded as "pause".
Call(op, pin, val, high, on, activeLow, retN, retB, s, paused, first, second) ==
    [op |-> op, pin |-> pin, val |-> val, high |-> high, on |-> on,
     activeLow |-> activeLow, retN |-> retN, retB |-> retB,
     w |-> s.w, r |-> s.r, err |-> s.err, faulted |-> s.faulted,
     failedAt |-> s.failedAt,
     paused |-> paused, first |-> first, second |-> second]

Plain(op, pin, val, high, s) ==
    Call(op, pin, val, high, FALSE, FALSE, 0, FALSE, s, FALSE, TRUE, TRUE)

Created == Plain("create", 0, 0, FALSE, Enter(0))

Brief(l) == [op |-> l.op, pin |-> l.pin, val |-> l.val, high |-> l.high]

\* The two-call sequences whose first call prev keeps.
Sequels ==
    {<<"begin", "begin">>, <<"writePort", "readPort">>,
     <<"writePin", "readPin">>, <<"setOutputLow", "readPin">>,
     <<"setInput", "setInput">>, <<"led", "buttonPressed">>,
     <<"setSimPinLow", "buttonPressed">>, <<"setSimPinHigh", "buttonPressed">>}

\* The fields of s become the Device's.
Store(s) ==
    /\ latch' = s.latch
    /\ initialized' = s.initialized
    /\ simPort' = s.simPort
    /\ firstBus' = s.firstBus
    /\ lastWrite' = s.lastWrite
    /\ ensureBegins' = s.ensureBegins
    /\ early' = s.early
    /\ UNCHANGED <<impl, host, sim>>

\* A call ends: last records it, and prev the call before it when the two
\* are one of the Sequels on the same pin.
Return(s, l) ==
    /\ Store(s)
    /\ last' = l
    /\ prev' = IF <<last.op, l.op>> \in Sequels /\ last.pin = l.pin
               THEN Brief(last)
               ELSE Brief(Created)
    /\ UNCHANGED test

\* The test program before its tasks have run: the blink task is about to
\* switch the LED on, and no task has written a level (-1).
TestStart == [a |-> "on", wroteA |-> -1, wroteB |-> -1]

\* constructor (and create). Only the "readme" revision asks the host.
Init ==
    /\ impl \in {"main", "readme"}
    /\ host \in (IF impl = "readme" THEN HostQueries ELSE {"unused"})
    /\ sim = (IF impl = "readme" THEN isSimulator(host) ELSE FALSE)
    /\ latch = 255
    /\ initialized = FALSE
    /\ simPort = 255
    /\ firstBus = [kind |-> "none", val |-> 0]
    /\ lastWrite = -1
    /\ ensureBegins = 0
    /\ early = FALSE
    /\ bp = NoBp
    /\ last = Created
    /\ prev = Brief(Created)
    /\ test = TestStart

\* Calls of begin through ensureInit are followed up to MaxBegins.
CanCall == ensureBegins < MaxBegins

Begin(F) ==
    /\ CanCall
    /\ \E f \in F :
        \E s \in {begin(Enter(f))} :
            /\ Return(s, Plain("begin", 0, 0, FALSE, s))
            /\ UNCHANGED bp

ReadPort(F) ==
    /\ CanCall
    /\ \E f \in F, rd \in BusBytes :
        \E s \in {readPort(Enter(f), rd)} :
            /\ Return(s, Call("readPort", 0, 0, FALSE, FALSE, FALSE, s.retN, FALSE,
                              s, FALSE, TRUE, TRUE))
            /\ UNCHANGED bp

WritePort(F) ==
    /\ CanCall
    /\ \E f \in F, value \in PortValues :
        \E s \in {writePort(Enter(f), value)} :
            /\ Return(s, Plain("writePort", 0, value, FALSE, s))
            /\ UNCHANGED bp

ReadPin(F, P) ==
    /\ CanCall
    /\ \E f \in F, pin \in P, rd \in BusBytes :
        \E s \in {readPin(Enter(f), pin, rd)} :
            /\ Return(s, Call("readPin", pin, 0, FALSE, FALSE, FALSE, 0, s.retB,
                              s, FALSE, TRUE, TRUE))
            /\ UNCHANGED bp

WritePin(F, P) ==
    /\ CanCall
    /\ \E f \in F, pin \in P, high \in BOOLEAN :
        \E s \in {writePin(Enter(f), pin, high)} :
            /\ Return(s, Plain("writePin", pin, 0, high, s))
            /\ UNCHANGED bp

Led(F, P) ==
    /\ CanCall
    /\ \E f \in F, pin \in P, on \in BOOLEAN, activeLow \in BOOLEAN :
        \E s \in {led(Enter(f), pin, on, activeLow)} :
            /\ Return(s, Call("led", pin, 0, ~driveLow(on, activeLow),
                              on, activeLow, 0, FALSE, s, FALSE, TRUE, TRUE))
            /\ UNCHANGED bp

SetInput(F, P) ==
    /\ CanCall
    /\ \E f \in F, pin \in P :
        \E s \in {setInput(Enter(f), pin)} :
            /\ Return(s, Plain("setInput", pin, 0, TRUE, s))
            /\ UNCHANGED bp

SetOutputLow(F, P) ==
    /\ CanCall
    /\ \E f \in F, pin \in P :
        \E s \in {setOutputLow(Enter(f), pin)} :
            /\ Return(s, Plain("setOutputLow", pin, 0, FALSE, s))
            /\ UNCHANGED bp

SetSimPinHigh(P) ==
    /\ CanCall
    /\ impl = "readme"
    /\ \E pin \in P :
        \E s \in {setSimPinHigh(Enter(0), pin)} :
            /\ Return(s, Plain("setSimPinHigh", pin, 0, TRUE, s))
            /\ UNCHANGED bp

SetSimPinLow(P) ==
    /\ CanCall
    /\ impl = "readme"
    /\ \E pin \in P :
        \E s \in {setSimPinLow(Enter(0), pin)} :
            /\ Return(s, Plain("setSimPinLow", pin, 0, FALSE, s))
            /\ UNCHANGED bp

\* A faulty ButtonPressed: it pauses after a low first read also when
\* debounceMs is 0.
ButtonPressedPauseAlways(F, P) ==
    /\ CanCall
    /\ ~bp.active
    /\ \E f \in F, pin \in P, debounceMs \in Debounces, rd \in BusBytes :
        \E s \in {readPin(Enter(f), pin, rd)} :
            IF ~s.err /\ s.retB = FALSE
            THEN /\ Return(s, Call("pause", pin, debounceMs, FALSE, FALSE, FALSE,
                                   0, FALSE, s, TRUE, FALSE, TRUE))
                 /\ bp' = [active |-> TRUE, pin |-> pin, d |-> debounceMs]
            ELSE /\ Return(s, Call("buttonPressed", pin, debounceMs, FALSE, FALSE, FALSE,
                                   0, FALSE, s, FALSE, TRUE, TRUE))
                 /\ UNCHANGED bp

\* buttonPressed up to basic.pause(debounceMs), or to its return when it does
\* not pause.  One call at a time is followed through its pause.
ButtonPressed(F, P) ==
    /\ CanCall
    /\ ~bp.active
    /\ \E f \in F, pin \in P, debounceMs \in Debounces, rd \in BusBytes :
        \E s \in {readPin(Enter(f), pin, rd)} :
            IF ~s.err /\ s.retB = FALSE /\ debounceMs > 0
            THEN /\ Return(s, Call("pause", pin, debounceMs, FALSE, FALSE, FALSE,
                                   0, FALSE, s, TRUE, FALSE, TRUE))
                 /\ bp' = [active |-> TRUE, pin |-> pin, d |-> debounceMs]
            ELSE /\ Return(s, Call("buttonPressed", pin, debounceMs, FALSE, FALSE, FALSE,
                                   0, ~s.err /\ s.retB = FALSE,
                                   s, FALSE, s.err \/ s.retB, TRUE))
                 /\ UNCHANGED bp

\* A faulty ButtonResume: the pin is not read again after the pause.
ButtonResumeNoRecheck(F) ==
    /\ CanCall
    /\ bp.active
    /\ \E s \in {Enter(0)} :
            /\ Return(s, Call("buttonPressed", bp.pin, bp.d, FALSE, FALSE, FALSE,
                              0, TRUE, s, TRUE, FALSE, TRUE))
            /\ bp' = NoBp

\* buttonPressed after the pause: return this.readPin(pin) == false
ButtonResume(F) ==
    /\ CanCall
    /\ bp.active
    /\ \E f \in F, rd \in BusBytes :
        \E s \in {readPin(Enter(f), bp.pin, rd)} :
            /\ Return(s, Call("buttonPressed", bp.pin, bp.d, FALSE, FALSE, FALSE,
                              0, ~s.err /\ s.retB = FALSE,
                              s, TRUE, FALSE, s.err \/ s.retB))
            /\ bp' = NoBp

\* The bus never fails.
Next ==
    \/ Begin({0})
    \/ ReadPort({0})
    \/ WritePort({0})
    \/ ReadPin({0}, Pins)
    \/ WritePin({0}, Pins)
    \/ Led({0}, Pins)
    \/ SetInput({0}, Pins)
    \/ SetOutputLow({0}, Pins)
    \/ SetSimPinHigh(Pins)
    \/ SetSimPinLow(Pins)
    \/ ButtonPressed({0}, Pins)
    \/ ButtonResume({0})

Spec == Init /\ [][Next]_vars

\* The bus may fail any transaction.  Only the hardware has a bus.
InitFail == Init /\ ~sim

NextFail ==
    \/ Begin(FailPoints)
    \/ ReadPort(FailPoints)
    \/ WritePort(FailPoints)
    \/ ReadPin(FailPoints, FailPins)
    \/ WritePin(FailPoints, FailPins)
    \/ Led(FailPoints, FailPins)
    \/ SetInput(FailPoints, FailPins)
    \/ SetOutputLow(FailPoints, FailPins)
    \/ SetSimPinHigh(FailPins)
    \/ SetSimPinLow(FailPins)
    \/ ButtonPressed(FailPoints, FailPins)
    \/ ButtonResume(FailPoints)

SpecFail == InitFail /\ [][NextFail]_vars

\* writePort with any number for value.
WritePortAny(F) ==
    /\ CanCall
    /\ \E f \in F, value \in AnyPortValues :
        \E s \in {writePort(Enter(f), value)} :
            /\ Return(s, Plain("writePort", 0, value, FALSE, s))
            /\ UNCHANGED bp

\* The bus never fails; pins are in 0..7, the value of writePort is any
\* number.
NextAnyValue ==
    \/ Begin({0})
    \/ ReadPort({0})
    \/ WritePortAny({0})
    \/ ReadPin({0}, Pins)
    \/ WritePin({0}, Pins)
    \/ Led({0}, Pins)
    \/ SetInput({0}, Pins)
    \/ SetOutputLow({0}, Pins)
    \/ SetSimPinHigh(Pins)
    \/ SetSimPinLow(Pins)
    \/ ButtonPressed({0}, Pins)
    \/ ButtonResume({0})

SpecAnyValue == Init /\ [][NextAnyValue]_vars

\* The bus never fails; the pin argument may lie outside 0..7 (the methods
\* take a number and do not look at its range).
NextAnyPin ==
    \/ Begin({0})
    \/ ReadPort({0})
    \/ WritePort({0})
    \/ ReadPin({0}, AnyPins)
    \/ WritePin({0}, AnyPins)
    \/ Led({0}, AnyPins)
    \/ SetInput({0}, AnyPins)
    \/ SetOutputLow({0}, AnyPins)
    \/ SetSimPinHigh(AnyPins)
    \/ SetSimPinLow(AnyPins)
    \/ ButtonPressed({0}, AnyPins)
    \/ ButtonResume({0})

SpecAnyPin == Init /\ [][NextAnyPin]_vars

---------------------------------------------------------------------------
(* The test program (src/test.ts): three tasks share the Device io.  The    *)
(* host runs them cooperatively: a task runs until it reaches basic.pause,  *)
(* in its loop or inside buttonPressed, and any task may run next.          *)
(*   blink task:  led(P1, true); pause; led(P1, false); pause               *)
(*   button task: pressed = buttonPressed(P0, 20); led(P2, pressed); pause  *)
(*   port task:   readPort(); pause                                         *)

\* Pin.P1, the LED of the blink task.
TestBlinkPin == 1

\* Pin.P0, the button.
TestButtonPin == 0

\* Pin.P2, the LED that mirrors the button.
TestMirrorPin == 2

\* The debounceMs the button task passes.
TestDebounce == 20

\* The level led(pin, on) writes to bit pin of latch, activeLow being left
\* to its default true.
TestLevel(on) == IF driveLow(on, TRUE) THEN 0 ELSE 1

\* A call of a task ends, or reaches basic.pause.
TestReturn(s, l, t) ==
    /\ Store(s)
    /\ last' = l
    /\ prev' = Brief(Created)
    /\ test' = t

TestLedCall(pin, on, s) ==
    Call("led", pin, 0, ~driveLow(on, TRUE), on, TRUE, 0, FALSE, s, FALSE, TRUE, TRUE)

\* io.led(Pin.P1, true); basic.pause(200)
TestBlinkOn ==
    /\ test.a = "on"
    /\ \E s \in {led(Enter(0), TestBlinkPin, TRUE, TRUE)} :
            TestReturn(s, TestLedCall(TestBlinkPin, TRUE, s),
                       [test EXCEPT !.a = "off", !.wroteA = TestLevel(TRUE)])
    /\ UNCHANGED bp

\* io.led(Pin.P1, false); basic.pause(200)
TestBlinkOff ==
    /\ test.a = "off"
    /\ \E s \in {led(Enter(0), TestBlinkPin, FALSE, TRUE)} :
            TestReturn(s, TestLedCall(TestBlinkPin, FALSE, s),
                       [test EXCEPT !.a = "on", !.wroteA = TestLevel(FALSE)])
    /\ UNCHANGED bp

\* let pressed = io.buttonPressed(Pin.P0, 20), up to the basic.pause inside
\* it; or, the first read being high, to its return of false and on through
\* io.led(Pin.P2, pressed) to basic.pause(10).
TestButton ==
    /\ ~bp.active
    /\ \E rd \in BusBytes :
        \E s1 \in {readPin(Enter(0), TestButtonPin, rd)} :
            IF s1.retB = FALSE /\ TestDebounce > 0
            THEN /\ TestReturn(s1, Call("pause", TestButtonPin, TestDebounce, FALSE,
                                        FALSE, FALSE, 0, FALSE, s1, TRUE, FALSE, TRUE),
                               test)
                 /\ bp' = [active |-> TRUE, pin |-> TestButtonPin, d |-> TestDebounce]
            ELSE /\ \E s \in {led(s1, TestMirrorPin, s1.retB = FALSE, TRUE)} :
                        TestReturn(s, TestLedCall(TestMirrorPin, s1.retB = FALSE, s),
                                   [test EXCEPT !.wroteB = TestLevel(s1.retB = FALSE)])
                 /\ UNCHANGED bp

\* buttonPressed after its pause: the second read; then
\* io.led(Pin.P2, pressed); basic.pause(10).
TestButtonResume ==
    /\ bp.active
    /\ \E rd \in BusBytes :
        \E s1 \in {readPin(Enter(0), bp.pin, rd)} :
            \E s \in {led(s1, TestMirrorPin, s1.retB = FALSE, TRUE)} :
                TestReturn(s, TestLedCall(TestMirrorPin, s1.retB = FALSE, s),
                           [test EXCEPT !.wroteB = TestLevel(s1.retB = FALSE)])
    /\ bp' = NoBp

\* let raw = io.readPort(); basic.showNumber(raw); basic.pause(1000)
TestShowPort ==
    /\ \E rd \in BusBytes :
        \E s \in {readPort(Enter(0), rd)} :
            TestReturn(s, Call("readPort", 0, 0, FALSE, FALSE, FALSE, s.retN, FALSE,
                               s, FALSE, TRUE, TRUE),
                       test)
    /\ UNCHANGED bp

NextTest ==
    \/ TestBlinkOn
    \/ TestBlinkOff
    \/ TestButton
    \/ TestButtonResume
    \/ TestShowPort

SpecTest == Init /\ [][NextTest]_vars

---------------------------------------------------------------------------
(* Properties *)

\* Bit p of x.
Bit(x, p) == (x \div (2 ^ p)) % 2

\* C1: in the simulator, a level injected with setSimPinLow(p) right before
\* buttonPressed(p, d) is the level that call observes, so it returns true,
\* also when it is the call that initializes the Device; after
\* setSimPinHigh(p) it returns false.
C1_InjectedLevelObserved ==
    (sim /\ last.op = "buttonPressed" /\ prev.pin = last.pin) =>
        /\ prev.op = "setSimPinLow" => last.retB
        /\ prev.op = "setSimPinHigh" => ~last.retB

\* C2: when readPin(p) or buttonPressed(p, d) has returned (or buttonPressed
\* has made its first read and pauses), bit p of latch is 1, on both
\* backends and whatever drove the pin before.
C2_ReadReleasesPin ==
    (last.op \in {"readPin", "buttonPressed", "pause"} /\ ~last.err) =>
        Bit(latch, last.pin) = 1

C2_Witness ==
    /\ last.op = "buttonPressed"
    /\ prev.op = "led" /\ prev.pin = last.pin /\ ~prev.high
    /\ Bit(latch, last.pin) = 1

\* C3: in the simulator readPort returns a byte whose bit p is set exactly
\* when bit p of simPort and bit p of latch both are; so writePort(v) then
\* readPort() with simPort = 0xFF returns v.
C3_MockReadIsSnapshotAndLatch ==
    (sim /\ last.op = "readPort") =>
        /\ last.retN \in 0..255
        /\ \A p \in 0..7 : Bit(last.retN, p) = Bit(simPort, p) * Bit(latch, p)
        /\ (prev.op = "writePort" /\ simPort = 255) => last.retN = prev.val

C3_Witness ==
    /\ sim /\ last.op = "readPort"
    /\ prev.op = "writePort" /\ prev.val = 164
    /\ simPort = 255 /\ last.retN = 164

\* C4: in the simulator readPin(p) right after writePin(p, true) returns
\* bit p of simPort: true when it is 1, false when it is 0.
C4_ReleasedPinReadsSnapshot ==
    (sim /\ last.op = "readPin" /\ prev.op = "writePin" /\ prev.high
         /\ prev.pin = last.pin) =>
        last.retB = (Bit(simPort, last.pin) = 1)

C4_Witness ==
    /\ sim /\ last.op = "readPin"
    /\ prev.op = "writePin" /\ prev.high /\ prev.pin = last.pin
    /\ Bit(simPort, last.pin) = 0 /\ ~last.retB

\* C5: after led(p, on, activeLow) bit p of latch is 0 exactly when
\* (activeLow ? on : !on).
C5_LedDrivesPin ==
    last.op = "led" =>
        ((Bit(latch, last.pin) = 0) = (IF last.activeLow THEN last.on ELSE ~last.on))

C5_Witness ==
    /\ last.op = "led" /\ last.on /\ ~last.activeLow
    /\ Bit(latch, last.pin) = 1 /\ initialized

\* C6: buttonPressed(p, d) returns true exactly when its first readPin is low
\* and d = 0 or its second readPin, after the pause, is low too.  It pauses
\* only with d > 0 after a low first read.  In the simulator the read that
\* decides is bit p of simPort when the call returns: set high during the
\* pause, the call returns false.
C6_ButtonPressedResult ==
    (last.op = "buttonPressed" /\ ~last.err) =>
        /\ last.retB = (~last.first /\ (last.val = 0 \/ ~last.second))
        /\ last.paused => (last.val > 0 /\ ~last.first)
        /\ (sim /\ last.paused) => (last.second = (Bit(simPort, last.pin) = 1))
        /\ (sim /\ ~last.paused) => (last.first = (Bit(simPort, last.pin) = 1))

C6_Witness ==
    /\ sim /\ last.op = "buttonPressed" /\ last.paused /\ last.val = 20
    /\ prev.op = "setSimPinHigh" /\ prev.pin = last.pin
    /\ ~last.retB

C8_NoBusInSimulator ==
    sim => (firstBus.kind = "none" /\ lastWrite = -1 /\ last.w = 0 /\ last.r = 0)

C8_Witness ==
    /\ sim /\ last.op = "buttonPressed" /\ last.paused
    /\ latch # 255 /\ firstBus.kind = "none"

\* C9: a bus transaction that fails ends the call: the call attempts no
\* further transaction, returns no value and is left by the failure; and a
\* call is left that way only by a failed transaction.
C9_FailureAborts ==
    /\ last.faulted =>
          (last.err /\ last.w + last.r = last.failedAt /\ last.retN = 0 /\ ~last.retB)
    /\ last.err => last.faulted
    /\ last.op = "pause" => ~last.faulted

C9_Witness ==
    /\ last.op = "readPin" /\ last.faulted /\ last.err
    /\ last.w = 1 /\ last.r = 1 /\ last.failedAt = 2

\* C10: setInput(p) right after setInput(p) leaves latch as it is, with bit p
\* set.
C10_SetInputIdempotent ==
    [][(last.op = "setInput" /\ last'.op = "setInput" /\ last'.pin = last.pin) =>
          (latch' = latch /\ Bit(latch', last'.pin) = 1)]_vars

C10_Witness ==
    /\ last.op = "setInput" /\ prev.op = "setInput" /\ prev.pin = last.pin
    /\ Bit(latch, last.pin) = 1

\* C11: on the hardware setSimPinHigh(p) and setSimPinLow(p) change no field
\* and attempt no bus transaction; in the simulator they set, respectively
\* clear, bit p of simPort and leave its other bits, latch, initialized and
\* sim as they were.
C11_SimSettersFrame ==
    [][last'.op \in {"setSimPinHigh", "setSimPinLow"} =>
          /\ latch' = latch /\ initialized' = initialized /\ sim' = sim
          /\ firstBus' = firstBus /\ lastWrite' = lastWrite
          /\ last'.w = 0 /\ last'.r = 0 /\ ~last'.err
          /\ ~sim => simPort' = simPort
          /\ sim => \A q \in 0..7 :
                Bit(simPort', q) =
                    IF q # last'.pin THEN Bit(simPort, q)
                    ELSE IF last'.op = "setSimPinHigh" THEN 1 ELSE 0
          /\ simPort' \in 0..255]_vars

C11_Witness ==
    /\ sim /\ last.op = "setSimPinLow" /\ last.pin = 7
    /\ initialized /\ latch # 255
    /\ Bit(simPort, 7) = 0 /\ Bit(simPort, 0) = 1

\* C12: on the hardware, readPin(p) on an initialized Device writes to the bus
\* only when bit p of latch was 0 before the call; when the bit was 1 the
\* call makes one bus read and no bus write.
C12_ReadPinWritesOnlyToRelease ==
    [][(~sim /\ initialized /\ last'.op = "readPin") =>
          /\ last'.w > 0 => Bit(latch, last'.pin) = 0
          /\ Bit(latch, last'.pin) = 1 => (last'.r = 1 /\ last'.w = 0)]_vars

\* The calls that set the latch and push it: writePort, writePin and the
\* three helpers built on writePin.
LatchWriters == {"writePort", "writePin", "setInput", "setOutputLow", "led"}

\* C13 as stated: on the hardware, the bus not failing, the last byte written
\* equals latch once the Device is initialized, and every writePort and
\* writePin call makes exactly one bus write, of the new latch.
C13_OneWritePerCall ==
    /\ [](~sim /\ initialized => lastWrite = latch)
    /\ [][(~sim /\ last'.op \in LatchWriters) =>
            (last'.w = 1 /\ last'.r = 0 /\ lastWrite' = latch')]_vars

\* C13 amended: the call that initializes the Device makes two bus writes,
\* begin's write of 0xFF and then the write of the new latch; every other
\* writePort and writePin call makes exactly one; the last byte written
\* equals latch once the Device is initialized.
C13_LatchIsLastWrite ==
    /\ [](~sim /\ initialized => lastWrite = latch)
    /\ [][(~sim /\ last'.op \in LatchWriters) =>
            /\ last'.w = (IF initialized THEN 1 ELSE 2)
            /\ last'.r = 0
            /\ lastWrite' = latch'
            /\ ~initialized => firstBus' = [kind |-> "write", val |-> 255]]_vars

C13_Witness ==
    /\ ~sim /\ last.op = "writePin" /\ last.pin = 7 /\ ~last.high
    /\ last.w = 1 /\ lastWrite = 36 /\ latch = 36

\* C14: in the simulator writePort, writePin, setInput, setOutputLow and led
\* never change simPort, also when the call is the first on a Device whose
\* simPort setSimPinLow or setSimPinHigh has changed already.
C14_WritesLeaveSimPort ==
    [][(sim /\ last'.op \in LatchWriters) => simPort' = simPort]_vars

\* The calls made on one pin.  "pause" is buttonPressed up to basic.pause.
PinCalls ==
    {"writePin", "setInput", "setOutputLow", "led", "readPin", "buttonPressed",
     "pause"}

\* C15: a call on pin p changes at most bit p of latch: the seven other
\* bits are after the call what they were before it.
C15_OtherPinsKept ==
    [][last'.op \in PinCalls =>
          \A q \in 0..7 : q # last'.pin => Bit(latch', q) = Bit(latch, q)]_vars

C15_Witness ==
    /\ last.op = "readPin" /\ last.pin = 0
    /\ prev.op = "setOutputLow" /\ prev.pin = 0
    /\ latch = 37

\* C16: in the test program, whatever the order the tasks run in, bit 1 of
\* latch is the level the blink task wrote last, bit 2 the level the button
\* task wrote last (1 while the task has not written), bits 3..7 stay 1, and
\* begin has run once as soon as any task has called the Device, never
\* twice.
C16_NoLostUpdate ==
    /\ Bit(latch, TestBlinkPin) = (IF test.wroteA = -1 THEN 1 ELSE test.wroteA)
    /\ Bit(latch, TestMirrorPin) = (IF test.wroteB = -1 THEN 1 ELSE test.wroteB)
    /\ \A q \in 3..7 : Bit(latch, q) = 1
    /\ ensureBegins = (IF last.op = "create" THEN 0 ELSE 1)
    /\ initialized = (last.op # "create")
    /\ ~sim => firstBus.kind = (IF last.op = "create" THEN "none" ELSE "write")

\* The button task has seen the button pressed through both reads and has
\* switched its LED on while the blink task's LED is on as well.
C16_Witness ==
    /\ test.wroteA = 0 /\ test.wroteB = 0
    /\ last.op = "led" /\ last.pin = TestMirrorPin /\ last.r = 1
    /\ latch = 249

\* C17: buttonPressed(p, d) reaches basic.pause exactly when its first readPin
\* is low and d > 0, and pauses for d; after the pause it reads once more
\* and returns, without pausing again.  With a high first read, or d = 0, it
\* returns after its one readPin.  (On the hardware a readPin is one bus
\* read: each part of the call, before and after the pause, makes one.)
C17_PausesOnlyToDebounce ==
    /\ [](last.op = "pause" =>
            /\ bp = [active |-> TRUE, pin |-> last.pin, d |-> last.val]
            /\ last.val > 0 /\ ~last.first)
    /\ []((last.op = "buttonPressed" /\ ~last.err) =>
            /\ last.paused = (~last.first /\ last.val > 0)
            /\ ~last.paused => (last.first \/ last.val = 0))
    /\ [](~sim /\ last.op \in {"buttonPressed", "pause"} => last.r = 1)
    /\ [][/\ (~bp.active /\ bp'.active) => last'.op = "pause"
          /\ (bp.active /\ ~bp'.active) =>
                (last'.op = "buttonPressed" /\ last'.paused /\ last'.val = bp.d
                   /\ last'.pin = bp.pin)
          /\ (last'.op = "buttonPressed" /\ ~last'.paused) => (~bp.active /\ ~bp'.active)
          /\ (bp.active /\ bp'.active) => bp' = bp]_vars

C17_Witness ==
    /\ ~sim /\ last.op = "buttonPressed" /\ ~last.paused
    /\ last.val = 0 /\ ~last.first /\ last.retB /\ last.r = 1

\* The latch a call leaves, from the latch l before it and the call's name
\* and arguments alone; the backend has no part in it.
LatchAfter(l, c) ==
    CASE c.op = "begin" -> l
      [] c.op = "writePort" -> c.val % 256
      [] c.op = "readPin" -> l + (1 - Bit(l, c.pin)) * 2 ^ c.pin
      [] OTHER -> IF c.high THEN l + (1 - Bit(l, c.pin)) * 2 ^ c.pin
                            ELSE l - Bit(l, c.pin) * 2 ^ c.pin

\* C18: after each begin, writePort, writePin, setInput, setOutputLow, led
\* and readPin call, latch is LatchAfter of the latch before and the call,
\* and initialized is true, in the simulator as on the hardware: the same
\* calls leave the same latch and the same initialized on either backend.
C18_LatchBackendFree ==
    [][last'.op \in LatchWriters \cup {"begin", "readPin"} =>
          (latch' = LatchAfter(latch, last') /\ initialized')]_vars

C18_Witness ==
    /\ sim /\ initialized /\ last.op = "readPin"
    /\ prev.op = "setOutputLow" /\ prev.pin = last.pin
    /\ Bit(latch, last.pin) = 1 /\ latch # 255

\* C19: begin leaves latch as it is and initialized true, and pushes the
\* latch: one bus write of latch on the hardware, simPort = latch in the
\* simulator.  A begin right after a begin leaves the Device as the first
\* left it.
C19_BeginIdempotent ==
    [][last'.op = "begin" =>
          /\ latch' = latch /\ initialized'
          /\ ~sim => (last'.w = 1 /\ last'.r = 0 /\ lastWrite' = latch
                        /\ simPort' = simPort)
          /\ sim => (simPort' = latch /\ last'.w = 0 /\ last'.r = 0
                       /\ lastWrite' = lastWrite)
          /\ last.op = "begin" =>
                <<latch', initialized', simPort', lastWrite', sim'>> =
                    <<latch, initialized, simPort, lastWrite, sim>>]_vars

C19_Witness ==
    /\ sim /\ last.op = "begin" /\ prev.op = "begin"
    /\ initialized /\ latch = 36 /\ simPort = 36

\* C20: sim is true exactly when control.deviceDalVersion() returned "sim" to
\* the constructor; when the query throws, the constructor still completes,
\* with sim false; and no call changes sim.
C20_SimFixedAtConstruction ==
    /\ [](impl = "readme" => sim = (host = "sim"))
    /\ [](host = "THROWS" => ~sim)
    /\ [](last.op = "create" =>
            (latch = 255 /\ ~initialized /\ simPort = 255 /\ firstBus.kind = "none"))
    /\ [][sim' = sim /\ host' = host]_vars

C20_Witness ==
    /\ host = "THROWS" /\ ~sim
    /\ last.op = "buttonPressed" /\ last.paused /\ last.r = 1
    /\ firstBus.kind = "write"

\* C21: a call with a pin outside 0..7 is left at once by an
\* invalid-argument failure and leaves latch as it was.
C21_BadPinFailsFast ==
    [][(last'.op \in PinCalls /\ last'.pin \notin 0..7) =>
          (last'.err /\ latch' = latch)]_vars

\* C22: with pins in 0..7 and any number given to writePort, latch is always
\* in 0..255; writePort(value) leaves latch = value mod 256; and the bytes
\* written to the bus (the first ever, and the last of every call) are in
\* 0..255.
C22_LatchIsByte ==
    /\ latch \in 0..255
    /\ last.op = "writePort" => latch = last.val % 256
    /\ lastWrite \in -1..255
    /\ firstBus.val \in 0..255
    /\ (~sim /\ initialized) => lastWrite \in 0..255
    /\ simPort \in 0..255

C22_Witness ==
    /\ ~sim /\ impl = "main" /\ initialized
    /\ last.op = "writePort" /\ last.val = 420
    /\ latch = 164 /\ lastWrite = 164

====
